---- MODULE Spec2Model ----
(***************************************************************************)
(* CreditBridge front end: the session state shared through useAppState,   *)
(* the page router with its redirect guard, the Navbar, the AuthPage       *)
(* submit handler and the DynamicFormPage submit handler with its          *)
(* asynchronous scoring call.                                              *)
(*                                                                         *)
(* Rendering model (React 18, required by the Next.js app router):         *)
(*  - an event handler, and the continuation of an await, runs to          *)
(*    completion and all the state setters it calls are committed in one   *)
(*    batch, so each handler is one action;                                *)
(*  - a passive effect (useEffect) runs after the commit of the render     *)
(*    that scheduled it and before the next event is processed, so the     *)
(*    redirect guard is an action of its own and every other handler       *)
(*    waits for it;                                                        *)
(*  - component-local state (useState) lives as long as the component      *)
(*    stays mounted at its place in the tree and is re-created with its    *)
(*    initial value at the next mount.                                     *)
(***************************************************************************)
EXTENDS Integers, Sequences, FiniteSets, TLC

VARIABLES
    currentPage,   \* session: the nominal step
    isLoggedIn,    \* session
    userName,      \* session: display name of the signed-in user
    users,         \* session: sequence of registered users
    creditScore,   \* session: None or Some(score)
    riskBand,      \* session: None or Some(label)
    topFactors,    \* session: sequence of factor descriptors
    scoreHistory,  \* session: sequence of history entries, head first
    formData,      \* session: the fields of the profile form, as typed
    isSignUp,      \* AuthPage local state
    authError,     \* AuthPage local state
    isLoading,     \* DynamicFormPage local state
    formError,     \* DynamicFormPage local state: None or Some(message)
    requests,      \* scoring calls in flight, each with the closure of its handleSubmit
    today,         \* the calendar day read by new Date()
    lastOp         \* the handler that ran last (observation only)

vars == <<currentPage, isLoggedIn, userName, users, creditScore, riskBand, topFactors, scoreHistory, formData, isSignUp, authError, isLoading, formError, requests, today, lastOp>>

----
\* Bounds of the model

MaxUsers == 3

MaxHistory == 2

MaxInFlight == 2

MaxDay == 1

----
\* Values

\* null of a nullable session field, and a present value
None == <<>>

Some(x) == <<x>>

\* a string whose characters matter is a sequence of one-character strings
EmptyString == <<>>

Emails == { EmptyString, <<"a", "@", "x">>, <<"b", "O", "@", "x">> }

Passwords == { "", "p", "q" }

Results ==
    { [alternative_credit_score |-> 720, risk_band |-> "Low", top_factors |-> <<"savings_balance">>],
      [alternative_credit_score |-> 540, risk_band |-> "High", top_factors |-> <<"income_variance", "months_active">>] }

ErrorMessages == { "Failed to fetch", "Failed to reach the scoring API. Is it running?" }

MissingFieldError == "Please fill in all fields"

DuplicateEmailError == "Email already registered. Please sign in instead."

InvalidCredentialsError == "Invalid email or password. Please check and try again."

----
\* PageRouter

PROTECTED_PAGES == { "profile-select", "form", "dashboard", "settings" }

\* PageRouter without the early return: the switch alone
RenderedFor_NoEarlyReturn(page, loggedIn) ==
    IF page \in { "auth", "profile-select", "form", "dashboard", "settings" }
    THEN page
    ELSE "landing"

\* the step PageRouter returns for a nominal step and a login state
RenderedFor(page, loggedIn) ==
    IF ~loggedIn /\ page \in PROTECTED_PAGES
    THEN "auth"
    ELSE IF page \in { "auth", "profile-select", "form", "dashboard", "settings" }
         THEN page
         ELSE "landing"

Rendered == RenderedFor(currentPage, isLoggedIn)

\* the redirect effect of the last render has not run yet
GuardPending == ~isLoggedIn /\ currentPage \in PROTECTED_PAGES

\* Local state after a handler: a component that is no longer rendered is
\* unmounted, its state is gone (initial again at the next mount) and the
\* setters held by its pending calls no longer have any effect.
Detach(reqs) == [i \in DOMAIN reqs |-> [reqs[i] EXCEPT !.live = FALSE]]

LocalAfter(signUp, aErr, loading, fErr, reqs) ==
    /\ isSignUp' = IF Rendered' = "auth" THEN signUp ELSE FALSE
    /\ authError' = IF Rendered' = "auth" THEN aErr ELSE ""
    /\ isLoading' = IF Rendered' = "form" THEN loading ELSE FALSE
    /\ formError' = IF Rendered' = "form" THEN fErr ELSE None
    /\ requests' = IF Rendered' = "form" THEN reqs ELSE Detach(reqs)

LocalKept == LocalAfter(isSignUp, authError, isLoading, formError, requests)

\* the redirect as an effect without dependencies: run after the first render only
GuardEffect_OnMountOnly ==
    /\ lastOp = "init"
    /\ ~isLoggedIn /\ currentPage \in PROTECTED_PAGES
    /\ currentPage' = "auth"
    /\ UNCHANGED <<isLoggedIn, userName, users, creditScore, riskBand, topFactors, scoreHistory, formData, today>>
    /\ LocalKept
    /\ lastOp' = "guard"

GuardEffect ==
    /\ ~isLoggedIn /\ currentPage \in PROTECTED_PAGES
    /\ currentPage' = "auth"
    /\ UNCHANGED <<isLoggedIn, userName, users, creditScore, riskBand, topFactors, scoreHistory, formData, today>>
    /\ LocalKept
    /\ lastOp' = "guard"

----
\* Navbar

GoLanding ==
    /\ ~GuardPending
    /\ currentPage' = "landing"
    /\ UNCHANGED <<isLoggedIn, userName, users, creditScore, riskBand, topFactors, scoreHistory, formData, today>>
    /\ LocalKept
    /\ lastOp' = "nav"

GoDashboard ==
    /\ ~GuardPending
    /\ isLoggedIn
    /\ currentPage' = "dashboard"
    /\ UNCHANGED <<isLoggedIn, userName, users, creditScore, riskBand, topFactors, scoreHistory, formData, today>>
    /\ LocalKept
    /\ lastOp' = "nav"

\* Log out without setRiskBand(null)
Logout_KeepsRiskBand ==
    /\ ~GuardPending
    /\ isLoggedIn
    /\ isLoggedIn' = FALSE
    /\ creditScore' = None
    /\ currentPage' = "landing"
    /\ UNCHANGED <<riskBand, userName, users, topFactors, scoreHistory, formData, today>>
    /\ LocalKept
    /\ lastOp' = "logout"

\* Log out that also resets the history
Logout_ClearsHistory ==
    /\ ~GuardPending
    /\ isLoggedIn
    /\ isLoggedIn' = FALSE
    /\ creditScore' = None
    /\ riskBand' = None
    /\ scoreHistory' = <<>>
    /\ currentPage' = "landing"
    /\ UNCHANGED <<userName, users, topFactors, formData, today>>
    /\ LocalKept
    /\ lastOp' = "logout"

Logout ==
    /\ ~GuardPending
    /\ isLoggedIn
    /\ isLoggedIn' = FALSE
    /\ creditScore' = None
    /\ riskBand' = None
    /\ currentPage' = "landing"
    /\ UNCHANGED <<userName, users, topFactors, scoreHistory, formData, today>>
    /\ LocalKept
    /\ lastOp' = "logout"

GoLogin ==
    /\ ~GuardPending
    /\ ~isLoggedIn
    /\ currentPage' = "auth"
    /\ UNCHANGED <<isLoggedIn, userName, users, creditScore, riskBand, topFactors, scoreHistory, formData, today>>
    /\ LocalKept
    /\ lastOp' = "nav"

----
\* LandingPage: "Get Your Credit Score" and "Start for free"

GetStarted ==
    /\ ~GuardPending
    /\ Rendered = "landing"
    /\ currentPage' = "auth"
    /\ UNCHANGED <<isLoggedIn, userName, users, creditScore, riskBand, topFactors, scoreHistory, formData, today>>
    /\ LocalKept
    /\ lastOp' = "nav"

----
\* ProfileSelectionPage: choosing a profile opens the form

SelectProfile ==
    /\ ~GuardPending
    /\ Rendered = "profile-select"
    /\ currentPage' = "form"
    /\ UNCHANGED <<isLoggedIn, userName, users, creditScore, riskBand, topFactors, scoreHistory, formData, today>>
    /\ LocalKept
    /\ lastOp' = "nav"

----
\* AuthPage
\*
\* Both inputs carry "required", which a browser checks before it fires the
\* submit event; handleSubmit checks the two fields again, and the submits
\* modelled here include those that reach it with an empty field (a submit
\* event dispatched on the form, as a test does).

ToUpperCase(c) ==
    CASE c = "a" -> "A"
      [] c = "b" -> "B"
      [] c = "j" -> "J"
      [] c = "o" -> "O"
      [] c = "x" -> "X"
      [] OTHER -> c

ToLowerCase(c) ==
    CASE c = "A" -> "a"
      [] c = "B" -> "b"
      [] c = "J" -> "j"
      [] c = "O" -> "o"
      [] c = "X" -> "x"
      [] OTHER -> c

\* email.split("@")[0]
RECURSIVE BeforeAt(_)
BeforeAt(s) ==
    IF s = <<>> \/ Head(s) = "@" THEN <<>> ELSE <<Head(s)>> \o BeforeAt(Tail(s))

\* the first letter upper-cased and the rest lower-cased
Capitalize_LowerCasesRest(name) ==
    IF name = <<>> THEN <<>>
    ELSE <<ToUpperCase(Head(name))>> \o [k \in 1..(Len(name) - 1) |-> ToLowerCase(name[k + 1])]

\* name.charAt(0).toUpperCase() + name.slice(1)
Capitalize(name) ==
    IF name = <<>> THEN <<>> ELSE <<ToUpperCase(Head(name))>> \o Tail(name)

NewUser(email, password) ==
    LET local == BeforeAt(email)
        name == IF local = EmptyString THEN <<"U", "s", "e", "r">> ELSE local
    IN [email |-> email, password |-> password, userName |-> Capitalize(name)]

\* the check against the display name instead of the email
EmailTaken_ComparesUserName(us, email) == \E i \in DOMAIN us : us[i].userName = email

\* the check against the first registered user only
EmailTaken_FirstOnly(us, email) == us # <<>> /\ us[1].email = email

\* users.some(user => user.email === email)
EmailTaken(us, email) == \E i \in DOMAIN us : us[i].email = email

\* the lookup by email alone
FindUser_ByEmail(us, email, password) ==
    LET hits == { i \in DOMAIN us : us[i].email = email }
    IN IF hits = {} THEN 0 ELSE CHOOSE i \in hits : \A j \in hits : i <= j

\* users.find(u => u.email === email && u.password === password): the index
\* of the first match, 0 when there is none
FindUser(us, email, password) ==
    LET hits == { i \in DOMAIN us : us[i].email = email /\ us[i].password = password }
    IN IF hits = {} THEN 0 ELSE CHOOSE i \in hits : \A j \in hits : i <= j

AuthFails(message) ==
    /\ UNCHANGED <<currentPage, isLoggedIn, userName, users>>
    /\ LocalAfter(isSignUp, message, isLoading, formError, requests)

\* sign-up that shows the name before its first letter is upper-cased
SignUp_ShowsNameAsTyped(email, password) ==
    /\ Len(users) < MaxUsers
    /\ users' = Append(users, NewUser(email, password))
    /\ userName' = IF BeforeAt(email) = EmptyString THEN <<"U", "s", "e", "r">> ELSE BeforeAt(email)
    /\ isLoggedIn' = TRUE
    /\ currentPage' = "profile-select"
    /\ LocalAfter(isSignUp, "", isLoading, formError, requests)

\* sign-up that advances like sign-in
SignUp_ToDashboard(email, password) ==
    /\ Len(users) < MaxUsers
    /\ users' = Append(users, NewUser(email, password))
    /\ userName' = NewUser(email, password).userName
    /\ isLoggedIn' = TRUE
    /\ currentPage' = "dashboard"
    /\ LocalAfter(isSignUp, "", isLoading, formError, requests)

\* sign-up, after the two checks: create the user and open the session
SignUp(email, password) ==
    /\ Len(users) < MaxUsers
    /\ users' = Append(users, NewUser(email, password))
    /\ userName' = NewUser(email, password).userName
    /\ isLoggedIn' = TRUE
    /\ currentPage' = "profile-select"
    /\ LocalAfter(isSignUp, "", isLoading, formError, requests)

\* sign-in that tells a wrong password from an unknown email
SignIn_RevealsEmail(email, password) ==
    LET user == FindUser(users, email, password)
    IN IF user # 0
       THEN /\ userName' = users[user].userName
            /\ isLoggedIn' = TRUE
            /\ currentPage' = "dashboard"
            /\ UNCHANGED users
            /\ LocalAfter(isSignUp, "", isLoading, formError, requests)
       ELSE IF EmailTaken(users, email)
            THEN AuthFails("Wrong password")
            ELSE AuthFails(InvalidCredentialsError)

\* sign-in, after the check of the fields: look the pair up
SignIn(email, password) ==
    LET user == FindUser(users, email, password)
    IN IF user # 0
       THEN /\ userName' = users[user].userName
            /\ isLoggedIn' = TRUE
            /\ currentPage' = "dashboard"
            /\ UNCHANGED users
            /\ LocalAfter(isSignUp, "", isLoading, formError, requests)
       ELSE AuthFails(InvalidCredentialsError)

\* the handler with the lookups before the check of the fields
handleSubmitAuth_LookupFirst(email, password) ==
    /\ ~GuardPending
    /\ Rendered = "auth"
    /\ IF isSignUp
       THEN IF EmailTaken(users, email)
            THEN AuthFails(DuplicateEmailError)
            ELSE IF email = EmptyString \/ password = ""
                 THEN AuthFails(MissingFieldError)
                 ELSE SignUp(email, password)
       ELSE IF FindUser(users, email, password) # 0
            THEN SignIn(email, password)
            ELSE IF email = EmptyString \/ password = ""
                 THEN AuthFails(MissingFieldError)
                 ELSE SignIn(email, password)
    /\ UNCHANGED <<creditScore, riskBand, topFactors, scoreHistory, formData, today>>
    /\ lastOp' = "auth"

handleSubmitAuth(email, password) ==
    /\ ~GuardPending
    /\ Rendered = "auth"
    /\ IF isSignUp
       THEN IF email = EmptyString \/ password = ""
            THEN AuthFails(MissingFieldError)
            ELSE IF EmailTaken(users, email)
                 THEN AuthFails(DuplicateEmailError)
                 ELSE SignUp(email, password)
       ELSE IF email = EmptyString \/ password = ""
            THEN AuthFails(MissingFieldError)
            ELSE SignIn(email, password)
    /\ UNCHANGED <<creditScore, riskBand, topFactors, scoreHistory, formData, today>>
    /\ lastOp' = "auth"

AuthSubmit == \E email \in Emails, password \in Passwords : handleSubmitAuth(email, password)

ToggleMode ==
    /\ ~GuardPending
    /\ Rendered = "auth"
    /\ UNCHANGED <<currentPage, isLoggedIn, userName, users, creditScore, riskBand, topFactors, scoreHistory, formData, today>>
    /\ LocalAfter(~isSignUp, authError, isLoading, formError, requests)
    /\ lastOp' = "toggle"

----
\* Numbers
\*
\* A JavaScript number is n/d in lowest terms with d > 0, or NaN (0/0),
\* Infinity (1/0) or -Infinity (-1/0). The arithmetic is exact: the values
\* the form yields are far from the limits of a double, and the sign of a
\* zero is not kept.

\* The operations are functions of their operands: an operand is evaluated
\* once, before the operation is applied to it.

Gcd[a \in Nat, b \in Nat] == IF b = 0 THEN a ELSE Gcd[b, a % b]

Abs[x \in Int] == IF x < 0 THEN -x ELSE x

Sign[x \in Int] == IF x < 0 THEN -1 ELSE IF x > 0 THEN 1 ELSE 0

Number[n \in Int, d \in Int] ==
    IF d = 0
    THEN [n |-> Sign[n], d |-> 0]
    ELSE [n |-> Sign[d] * (n \div Gcd[Abs[n], Abs[d]]), d |-> Abs[d] \div Gcd[Abs[n], Abs[d]]]

Numbers == [n : Int, d : Nat]

NaN == Number[0, 0]

Infinity == Number[1, 0]

Zero == Number[0, 1]

isFinite(x) == x.d # 0

\* a <= b, for operands that are not NaN
LessEq[a \in Numbers, b \in Numbers] == a.n * b.d <= b.n * a.d

Times[a \in Numbers, b \in Numbers] == Number[a.n * b.n, a.d * b.d]

Over[a \in Numbers, b \in Numbers] == Number[a.n * b.d, a.d * b.n]

Minus[a \in Numbers, b \in Numbers] ==
    IF a.d = 0 /\ b.d = 0
    THEN IF a = NaN \/ b = NaN \/ a = b THEN NaN ELSE a
    ELSE Number[a.n * b.d - b.n * a.d, a.d * b.d]

\* Math.max and Math.min of two operands: NaN when either is NaN
MathMax[a \in Numbers, b \in Numbers] ==
    IF a = NaN \/ b = NaN THEN NaN ELSE IF LessEq[a, b] THEN b ELSE a

MathMin[a \in Numbers, b \in Numbers] ==
    IF a = NaN \/ b = NaN THEN NaN ELSE IF LessEq[a, b] THEN a ELSE b

\* parseFloat (ECMAScript 19.2.4): leading white space is skipped, then the
\* longest prefix that is a decimal literal is read: a sign, then "Infinity"
\* or digits with an optional fraction and an optional exponent. What follows
\* the prefix is ignored; with no such prefix the result is NaN.
CharSeqs == Seq(STRING)

DigitChars == <<"0", "1", "2", "3", "4", "5", "6", "7", "8", "9">>

IsDigit(c) == \E k \in DOMAIN DigitChars : DigitChars[k] = c

DigitValue(c) == (CHOOSE k \in DOMAIN DigitChars : DigitChars[k] = c) - 1

CountSpaces[s \in CharSeqs, i \in Nat] ==
    IF i <= Len(s) /\ s[i] = " " THEN 1 + CountSpaces[s, i + 1] ELSE 0

CountDigits[s \in CharSeqs, i \in Nat] ==
    IF i <= Len(s) /\ IsDigit(s[i]) THEN 1 + CountDigits[s, i + 1] ELSE 0

\* the value of the len digits of s that start at i
DigitsValue[s \in CharSeqs, i \in Nat, len \in Nat] ==
    IF len = 0 THEN 0 ELSE DigitsValue[s, i, len - 1] * 10 + DigitValue(s[i + len - 1])

Pow10[k \in Nat] == IF k = 0 THEN 1 ELSE 10 * Pow10[k - 1]

StartsWith(s, i, word) ==
    /\ i + Len(word) - 1 <= Len(s)
    /\ \A k \in DOMAIN word : s[i + k - 1] = word[k]

\* the exponent part of s at i: e or E, an optional sign and digits; 0 when
\* there is none
ExponentAt[s \in CharSeqs, i \in Nat] ==
    LET signed == i + 1 <= Len(s) /\ s[i + 1] \in { "+", "-" }
        first == IF signed THEN i + 2 ELSE i + 1
    IN IF i <= Len(s) /\ s[i] \in { "e", "E" }
       THEN (IF signed /\ s[i + 1] = "-" THEN -1 ELSE 1) * DigitsValue[s, first, CountDigits[s, first]]
       ELSE 0

Scaled[mantissa \in Numbers, exp \in Int] ==
    IF exp < 0
    THEN Over[mantissa, Number[Pow10[-exp], 1]]
    ELSE Times[mantissa, Number[Pow10[exp], 1]]

\* the decimal literal of s at i, whose integer part has nInt digits and
\* whose fraction, if any, has nFrac
DecimalAt[s \in CharSeqs, i \in Nat, nInt \in Nat, nFrac \in Nat] ==
    IF nInt + nFrac = 0
    THEN NaN
    ELSE Scaled[Number[DigitsValue[s, i, nInt] * Pow10[nFrac] + DigitsValue[s, i + nInt + 1, nFrac],
                       Pow10[nFrac]],
                ExponentAt[s, IF i + nInt <= Len(s) /\ s[i + nInt] = "." THEN i + nInt + 1 + nFrac ELSE i + nInt]]

FractionAt[s \in CharSeqs, i \in Nat, nInt \in Nat] ==
    IF i + nInt <= Len(s) /\ s[i + nInt] = "."
    THEN DecimalAt[s, i, nInt, CountDigits[s, i + nInt + 1]]
    ELSE DecimalAt[s, i, nInt, 0]

UnsignedAt[s \in CharSeqs, i \in Nat] ==
    IF StartsWith(s, i, <<"I", "n", "f", "i", "n", "i", "t", "y">>)
    THEN Infinity
    ELSE FractionAt[s, i, CountDigits[s, i]]

SignedAt[s \in CharSeqs, i \in Nat] ==
    IF i <= Len(s) /\ s[i] = "-" THEN Times[Number[-1, 1], UnsignedAt[s, i + 1]]
    ELSE IF i <= Len(s) /\ s[i] = "+" THEN UnsignedAt[s, i + 1]
    ELSE UnsignedAt[s, i]

ParsePrefix(s) == SignedAt[s, 1 + CountSpaces[s, 1]]

----
\* DynamicFormPage: the form fields and the request built from them

\* formData.profileType: unset, one of the profiles the form knows, the
\* service's own name of the default profile, or an identifier profileMap has
\* no entry for
ProfileTypes == { "", "student", "gig-worker", "shopkeeper", "rural", "salaried", "freelancer" }

\* the fields the form edits through update; of the free-text fields, which
\* handleSubmit does not read, fullName stands for all
TypedFields ==
    { "fullName", "monthlyIncome", "incomeStability", "savingsBalance", "monthsActive",
      "gpa", "attendanceRate", "platformRating", "avgWeeklyHours", "businessYears",
      "avgDailyRevenue", "landSize", "subsidyAmount", "seasonalityIndex" }

\* What a field may hold when the form is submitted. The numeric inputs carry
\* type="number", from which a browser hands over "" or a decimal literal;
\* handleSubmit parses whatever formData holds, and the values modelled
\* include those only a restored or scripted form holds.
RawValues == { "", "abc", "Infinity", "-5", "0.005", "0.8", "8.5", " 92e0x" }

\* the characters of a raw value
Characters(v) ==
    CASE v = "" -> <<>>
      [] v = "abc" -> <<"a", "b", "c">>
      [] v = "Infinity" -> <<"I", "n", "f", "i", "n", "i", "t", "y">>
      [] v = "-5" -> <<"-", "5">>
      [] v = "0.005" -> <<"0", ".", "0", "0", "5">>
      [] v = "0.8" -> <<"0", ".", "8">>
      [] v = "8.5" -> <<"8", ".", "5">>
      [] v = " 92e0x" -> <<" ", "9", "2", "e", "0", "x">>
      [] v = "92" -> <<"9", "2">>
      [] v = "25000" -> <<"2", "5", "0", "0", "0">>

\* the form with profile p, every typed field holding v except field f, which holds w
FormDataOf(p, v, f, w) ==
    [g \in TypedFields \cup { "profileType" } |->
        IF g = "profileType" THEN p ELSE IF g = f THEN w ELSE v]

\* the forms explored: the empty form and the form filled throughout, each
\* with at most one field typed anew
BaseValues == { "", "0.8" }

\* and the form of a student who filled in the income and the student fields
StudentForm ==
    [FormDataOf("student", "", "fullName", "") EXCEPT
        !.monthlyIncome = "25000", !.incomeStability = "0.8", !.gpa = "8.5", !.attendanceRate = "92"]

OthersAtBase(fd, field) ==
    \E v \in BaseValues : \A g \in TypedFields \ { field } : fd[g] = v

\* profileMap with the service's name of the gig profile as its key
profileMap_KeyedByServiceName(key) ==
    CASE key = "gig" -> Some("gig")
      [] key = "student" -> Some("student")
      [] key = "shopkeeper" -> Some("shopkeeper")
      [] key = "rural" -> Some("rural")
      [] key = "salaried" -> Some("salaried")
      [] OTHER -> None

\* profileMap[key]: the entry of the key, None for undefined
profileMap(key) ==
    CASE key = "gig-worker" -> Some("gig")
      [] key = "student" -> Some("student")
      [] key = "shopkeeper" -> Some("shopkeeper")
      [] key = "rural" -> Some("rural")
      [] key = "salaried" -> Some("salaried")
      [] OTHER -> None

\* parseFloat(v)
parseFloat(v) == ParsePrefix(Characters(v))

\* num with the non-finite results of parseFloat let through
num_NoFiniteCheck(v, fallback) == parseFloat(v)

\* num with the default fallback at every call
num_DefaultFallback(v, fallback) ==
    LET n == parseFloat(v)
    IN IF isFinite(n) THEN n ELSE Zero

num(v, fallback) ==
    LET n == parseFloat(v)
    IN IF isFinite(n) THEN n ELSE fallback

\* clamp with Math.min and Math.max taken for each other
clamp_MinOfMax(value, min, max) == MathMin[min, MathMax[max, value]]

\* clamp without the upper limit
clamp_NoUpper(value, min, max) == MathMax[min, value]

clamp(value, min, max) == MathMax[min, MathMin[max, value]]

\* an optional field sent as zero for the other profiles
OnlyFor_ZeroOtherwise(profile, group, value) == IF profile = group THEN Some(value) ELSE Some(Zero)

\* profile === group ? value : undefined; a key whose value is undefined is
\* left out of the JSON body
OnlyFor(profile, group, value) == IF profile = group THEN Some(value) ELSE None

\* an aggregate field filled with a count instead of the literal
NotCollected_CountsOne == Number[1, 1]

\* the literal 0 of the six aggregate fields, which the form does not collect
NotCollected == Zero

payload(fd) ==
    LET profile == IF profileMap(fd.profileType) # None THEN profileMap(fd.profileType)[1] ELSE "salaried"
        stability == clamp(num(fd.incomeStability, Number[1, 2]), Number[1, 100], Number[1, 1])
        income_variance == MathMax[Zero, Minus[Over[Number[1, 1], stability], Number[1, 1]]]
        gpa == clamp(Times[Over[num(fd.gpa, Zero), Number[10, 1]], Number[4, 1]], Zero, Number[4, 1])
        attendance_rate == clamp(Over[num(fd.attendanceRate, Zero), Number[100, 1]], Zero, Number[1, 1])
        platform_rating == clamp(num(fd.platformRating, Zero), Zero, Number[5, 1])
        seasonality_index == clamp(num(fd.seasonalityIndex, Zero), Zero, Number[1, 1])
    IN [ profile_type |-> profile,
         monthly_income |-> MathMax[Zero, num(fd.monthlyIncome, Zero)],
         income_variance |-> income_variance,
         savings_balance |-> MathMax[Zero, num(fd.savingsBalance, Zero)],
         months_active |-> MathMax[Zero, num(fd.monthsActive, Zero)],
         total_credits |-> NotCollected,
         total_debits |-> NotCollected,
         total_transactions |-> NotCollected,
         avg_credit_amount |-> NotCollected,
         avg_debit_amount |-> NotCollected,
         recurring_ratio |-> NotCollected,
         gpa |-> OnlyFor(profile, "student", gpa),
         attendance_rate |-> OnlyFor(profile, "student", attendance_rate),
         platform_rating |-> OnlyFor(profile, "gig", platform_rating),
         avg_weekly_hours |-> OnlyFor(profile, "gig", MathMax[Zero, num(fd.avgWeeklyHours, Zero)]),
         business_years |-> OnlyFor(profile, "shopkeeper", MathMax[Zero, num(fd.businessYears, Zero)]),
         avg_daily_revenue |-> OnlyFor(profile, "shopkeeper", MathMax[Zero, num(fd.avgDailyRevenue, Zero)]),
         land_size_acres |-> OnlyFor(profile, "rural", MathMax[Zero, num(fd.landSize, Zero)]),
         subsidy_amount |-> OnlyFor(profile, "rural", MathMax[Zero, num(fd.subsidyAmount, Zero)]),
         seasonality_index |-> OnlyFor(profile, "rural", seasonality_index) ]

\* update that stores the typed field alone: setFormData({ [field]: value })
update_DropsOtherFields(field, value) ==
    /\ ~GuardPending
    /\ Rendered = "form"
    /\ OthersAtBase(formData, field)
    /\ formData' = [g \in DOMAIN formData |-> IF g = field THEN value ELSE ""]
    /\ UNCHANGED <<currentPage, isLoggedIn, userName, users, creditScore, riskBand, topFactors, scoreHistory, today>>
    /\ LocalKept
    /\ lastOp' = "update"

\* update(field, value): one field typed
update(field, value) ==
    /\ ~GuardPending
    /\ Rendered = "form"
    /\ OthersAtBase(formData, field)
    /\ formData' = [formData EXCEPT ![field] = value]
    /\ UNCHANGED <<currentPage, isLoggedIn, userName, users, creditScore, riskBand, topFactors, scoreHistory, today>>
    /\ LocalKept
    /\ lastOp' = "update"

TypeField == \E field \in TypedFields, value \in RawValues : update(field, value)

----
\* DynamicFormPage: the submit handler and the scoring call

RemoveAt(s, i) == SubSeq(s, 1, i - 1) \o SubSeq(s, i + 1, Len(s))

\* handleSubmit up to the await: the call is issued and the rest of the
\* handler, with the scoreHistory of this render in its closure, waits for it
handleSubmitForm ==
    /\ ~GuardPending
    /\ Rendered = "form"
    /\ ~isLoading
    /\ Len(requests) < MaxInFlight
    /\ Len(scoreHistory) < MaxHistory
    /\ UNCHANGED <<currentPage, isLoggedIn, userName, users, creditScore, riskBand, topFactors, scoreHistory, formData, today>>
    /\ LocalAfter(isSignUp, authError, TRUE, None,
                  Append(requests, [payload |-> payload(formData), scoreHistory |-> scoreHistory, live |-> TRUE]))
    /\ lastOp' = "submit"

\* the success path without setRiskBand
ScoreResolved_NoRiskBand(i, result) ==
    /\ ~GuardPending
    /\ i \in DOMAIN requests
    /\ creditScore' = Some(result.alternative_credit_score)
    /\ topFactors' = result.top_factors
    /\ scoreHistory' =
          <<[date |-> today, score |-> result.alternative_credit_score, riskBand |-> result.risk_band]>>
          \o requests[i].scoreHistory
    /\ currentPage' = "dashboard"
    /\ UNCHANGED <<riskBand, isLoggedIn, userName, users, formData, today>>
    /\ LocalAfter(isSignUp, authError,
                  IF requests[i].live THEN FALSE ELSE isLoading,
                  formError, RemoveAt(requests, i))
    /\ lastOp' = "resolved"

\* the success path with the new entry put last
ScoreResolved_EntryLast(i, result) ==
    /\ ~GuardPending
    /\ i \in DOMAIN requests
    /\ creditScore' = Some(result.alternative_credit_score)
    /\ riskBand' = Some(result.risk_band)
    /\ topFactors' = result.top_factors
    /\ scoreHistory' =
          requests[i].scoreHistory
          \o <<[date |-> today, score |-> result.alternative_credit_score, riskBand |-> result.risk_band]>>
    /\ currentPage' = "dashboard"
    /\ UNCHANGED <<isLoggedIn, userName, users, formData, today>>
    /\ LocalAfter(isSignUp, authError,
                  IF requests[i].live THEN FALSE ELSE isLoading,
                  formError, RemoveAt(requests, i))
    /\ lastOp' = "resolved"

\* calculateScore resolved: the rest of the try block, then finally
ScoreResolved(i, result) ==
    /\ ~GuardPending
    /\ i \in DOMAIN requests
    /\ creditScore' = Some(result.alternative_credit_score)
    /\ riskBand' = Some(result.risk_band)
    /\ topFactors' = result.top_factors
    /\ scoreHistory' =
          <<[date |-> today, score |-> result.alternative_credit_score, riskBand |-> result.risk_band]>>
          \o requests[i].scoreHistory
    /\ currentPage' = "dashboard"
    /\ UNCHANGED <<isLoggedIn, userName, users, formData, today>>
    /\ LocalAfter(isSignUp, authError,
                  IF requests[i].live THEN FALSE ELSE isLoading,
                  formError, RemoveAt(requests, i))
    /\ lastOp' = "resolved"

\* the failure path with the navigation of the success path
ScoreRejected_Navigates(i, message) ==
    /\ ~GuardPending
    /\ i \in DOMAIN requests
    /\ currentPage' = "dashboard"
    /\ UNCHANGED <<isLoggedIn, userName, users, creditScore, riskBand, topFactors, scoreHistory, formData, today>>
    /\ LocalAfter(isSignUp, authError,
                  IF requests[i].live THEN FALSE ELSE isLoading,
                  IF requests[i].live THEN Some(message) ELSE formError,
                  RemoveAt(requests, i))
    /\ lastOp' = "rejected"

\* calculateScore rejected: catch, then finally
ScoreRejected(i, message) ==
    /\ ~GuardPending
    /\ i \in DOMAIN requests
    /\ UNCHANGED <<currentPage, isLoggedIn, userName, users, creditScore, riskBand, topFactors, scoreHistory, formData, today>>
    /\ LocalAfter(isSignUp, authError,
                  IF requests[i].live THEN FALSE ELSE isLoading,
                  IF requests[i].live THEN Some(message) ELSE formError,
                  RemoveAt(requests, i))
    /\ lastOp' = "rejected"

ScoreSuccess == \E i \in 1..MaxInFlight, result \in Results : ScoreResolved(i, result)

ScoreFailure == \E i \in 1..MaxInFlight, message \in ErrorMessages : ScoreRejected(i, message)

----
\* The calendar day new Date() reads moves on

DayPasses ==
    /\ today < MaxDay
    /\ today' = today + 1
    /\ UNCHANGED <<currentPage, isLoggedIn, userName, users, creditScore, riskBand, topFactors, scoreHistory, formData, isSignUp, authError, isLoading, formError, requests, lastOp>>

----
\* AppProvider: the session at application start
InitSession ==
    /\ currentPage = "landing"
    /\ isLoggedIn = FALSE
    /\ userName = EmptyString
    /\ users = <<>>
    /\ creditScore = None
    /\ riskBand = None
    /\ topFactors = <<>>
    /\ scoreHistory = <<>>
    /\ formData = FormDataOf("", "", "fullName", "")

\* the useState initial values of AuthPage
InitAuthPage ==
    /\ isSignUp = FALSE
    /\ authError = ""

\* the useState initial values of DynamicFormPage; no call has been issued
InitFormPage ==
    /\ isLoading = FALSE
    /\ formError = None
    /\ requests = <<>>

Init ==
    /\ InitSession
    /\ InitAuthPage
    /\ InitFormPage
    /\ today = 0
    /\ lastOp = "init"

Next ==
    \/ GuardEffect
    \/ GoLanding
    \/ GoDashboard
    \/ Logout
    \/ GoLogin
    \/ GetStarted
    \/ SelectProfile
    \/ AuthSubmit
    \/ ToggleMode
    \/ handleSubmitForm
    \/ ScoreSuccess
    \/ ScoreFailure
    \/ DayPasses

Spec == Init /\ [][Next]_vars

\* the redirect effect of a committed render is always run
LiveSpec == Spec /\ WF_vars(GuardEffect)

----
\* The form page of a signed-in user, with the fields as typed so far; the
\* profile was stored by the profile selection page
FormInit ==
    /\ currentPage = "form"
    /\ isLoggedIn = TRUE
    /\ users = <<NewUser(<<"a", "@", "x">>, "p")>>
    /\ userName = users[1].userName
    /\ creditScore = None
    /\ riskBand = None
    /\ topFactors = <<>>
    /\ scoreHistory = <<>>
    /\ \/ \E p \in ProfileTypes, v \in BaseValues, f \in TypedFields, w \in RawValues :
             formData = FormDataOf(p, v, f, w)
       \/ formData = StudentForm
    /\ InitAuthPage
    /\ InitFormPage
    /\ today = 0
    /\ lastOp = "init"

FormNext ==
    \/ TypeField
    \/ handleSubmitForm
    \/ ScoreSuccess
    \/ ScoreFailure

FormSpec == FormInit /\ [][FormNext]_vars

\* The same page for one profile: what typing and submitting do to formData
\* does not depend on the profile
EditInit == FormInit /\ formData.profileType = "rural"

EditSpec == EditInit /\ [][FormNext]_vars

----
\* The auth page alone, with emails whose local part is empty, mixed-case or
\* the whole address
NameEmails == { <<"@", "x">>, <<"j", "O", "@", "x">>, <<"A", "b", "@", "x">>, <<"o", "b">> }

NameSubmit == \E email \in NameEmails : handleSubmitAuth(email, "p")

NameNext ==
    \/ GoLogin
    \/ ToggleMode
    \/ NameSubmit
    \/ Logout

NameSpec == Init /\ [][NameNext]_vars

----
\* Claims

ProtectedSteps == { "profile-select", "form", "dashboard", "settings" }

\* C1: whenever the session is logged out and the current step is one of
\* profile-select, form, dashboard, settings, the step PageRouter renders is
\* auth; no protected step is rendered while logged out.
C1_NoProtectedStepRenderedLoggedOut ==
    /\ (~isLoggedIn /\ currentPage \in ProtectedSteps) => Rendered = "auth"
    /\ ~isLoggedIn => Rendered \notin ProtectedSteps

\* a scoring response that arrived after the logout has set the step to dashboard
C1_Witness == ~isLoggedIn /\ currentPage = "dashboard" /\ lastOp = "resolved"

\* C2: every state with the session logged out and the current step protected,
\* however it was reached, is followed by one where the redirect effect has
\* set the current step to auth (the effect is always run).
C2_GuardIsReactive ==
    (~isLoggedIn /\ currentPage \in ProtectedSteps) ~> (lastOp = "guard" /\ currentPage = "auth")

\* the effect has redirected a logged-out session that a response had sent to dashboard
C2_Witness == lastOp = "guard" /\ currentPage = "auth" /\ ~isLoggedIn /\ scoreHistory # <<>>

\* C3: a sign-up submit with a non-empty email and a non-empty password whose
\* email no registered user has appends exactly one user {email, password,
\* userName} at the end of users, sets isLoggedIn, sets userName to the new
\* user's display name and sets currentPage to profile-select.
C3_SignUpCreatesUser ==
    [][\A e \in Emails, p \in Passwords :
          ( /\ handleSubmitAuth(e, p)
            /\ isSignUp
            /\ e # EmptyString /\ p # ""
            /\ ~\E i \in DOMAIN users : users[i].email = e )
          => /\ Len(users') = Len(users) + 1
             /\ SubSeq(users', 1, Len(users)) = users
             /\ users'[Len(users')].email = e
             /\ users'[Len(users')].password = p
             /\ userName' = users'[Len(users')].userName
             /\ isLoggedIn' = TRUE
             /\ currentPage' = "profile-select"]_vars

\* a second user has just signed up
C3_Witness == lastOp = "auth" /\ isLoggedIn /\ currentPage = "profile-select" /\ Len(users) = 2

\* C4 as stated: a sign-up submit whose email a registered user has fails
\* with the duplicate-email error and leaves users, isLoggedIn, userName and
\* currentPage unchanged.
C4_Original ==
    [][\A e \in Emails, p \in Passwords :
          ( /\ handleSubmitAuth(e, p)
            /\ isSignUp
            /\ \E i \in DOMAIN users : users[i].email = e )
          => /\ authError' = DuplicateEmailError
             /\ UNCHANGED <<users, isLoggedIn, userName, currentPage>>]_vars

\* C4 amended: a sign-up submit with a non-empty password whose email a
\* registered user has fails with the duplicate-email error and leaves users,
\* isLoggedIn, userName and currentPage unchanged (with an empty password the
\* error is the missing-field one, the state unchanged all the same).
C4_DuplicateSignUpFails ==
    [][\A e \in Emails, p \in Passwords :
          ( /\ handleSubmitAuth(e, p)
            /\ isSignUp
            /\ \E i \in DOMAIN users : users[i].email = e )
          => /\ authError' = IF p = "" THEN MissingFieldError ELSE DuplicateEmailError
             /\ UNCHANGED <<users, isLoggedIn, userName, currentPage>>]_vars

\* a sign-up with a registered email has just been refused
C4_Witness == lastOp = "auth" /\ isSignUp /\ authError = DuplicateEmailError /\ Len(users) = 1

\* C5: no two distinct entries of users have the same email.
C5_EmailsUnique ==
    \A i, j \in DOMAIN users : i # j => users[i].email # users[j].email

\* every email of the model is registered and a further sign-up was refused
C5_Witness == Len(users) = 2 /\ lastOp = "auth" /\ authError = DuplicateEmailError

\* C6 as stated: a sign-in submit succeeds exactly when users holds the
\* submitted (email, password) pair; on success it sets isLoggedIn, userName
\* and currentPage = dashboard; on failure it reports invalid credentials and
\* leaves users, isLoggedIn, userName and currentPage unchanged.
C6_Original ==
    [][\A e \in Emails, p \in Passwords :
          (handleSubmitAuth(e, p) /\ ~isSignUp)
          => LET hits == { i \in DOMAIN users : users[i].email = e /\ users[i].password = p }
             IN IF hits # {}
                THEN /\ isLoggedIn' = TRUE
                     /\ \E i \in hits : userName' = users[i].userName
                     /\ currentPage' = "dashboard"
                     /\ users' = users
                ELSE /\ authError' = InvalidCredentialsError
                     /\ UNCHANGED <<users, isLoggedIn, userName, currentPage>>]_vars

\* C6 amended: as stated, except that a failed sign-in with an empty email
\* or an empty password reports the missing-field error; with both fields
\* filled in it reports invalid credentials.
C6_SignInIffPairRegistered ==
    [][\A e \in Emails, p \in Passwords :
          (handleSubmitAuth(e, p) /\ ~isSignUp)
          => LET hits == { i \in DOMAIN users : users[i].email = e /\ users[i].password = p }
             IN IF hits # {}
                THEN /\ isLoggedIn' = TRUE
                     /\ \E i \in hits : userName' = users[i].userName
                     /\ currentPage' = "dashboard"
                     /\ users' = users
                ELSE /\ authError' = IF e = EmptyString \/ p = ""
                                     THEN MissingFieldError
                                     ELSE InvalidCredentialsError
                     /\ UNCHANGED <<users, isLoggedIn, userName, currentPage>>]_vars

\* a sign-in has just been refused for its credentials while users are registered
C6_Witness == lastOp = "auth" /\ ~isSignUp /\ authError = InvalidCredentialsError /\ users # <<>> /\ ~isLoggedIn

\* C7: the Log out button is there in every logged-in state, and a logout
\* sets isLoggedIn to false, creditScore and riskBand to null and currentPage
\* to landing in one step.
C7_LogoutClearsSession ==
    /\ [](isLoggedIn => ENABLED Logout)
    /\ [][Logout => /\ isLoggedIn' = FALSE
                    /\ creditScore' = None
                    /\ riskBand' = None
                    /\ currentPage' = "landing"]_vars

\* a session that had a score has just been logged out
C7_Witness == lastOp = "logout" /\ ~isLoggedIn /\ scoreHistory # <<>> /\ topFactors # <<>>

\* C8: a logout leaves users and scoreHistory as they were; every registered
\* user's (email, password) pair is still found afterwards.
C8_LogoutKeepsUsersAndHistory ==
    [][Logout => /\ UNCHANGED <<users, scoreHistory>>
                 /\ \A i \in DOMAIN users :
                       \E j \in DOMAIN users' :
                          users'[j].email = users[i].email /\ users'[j].password = users[i].password]_vars

\* a logout with two registered users and a history of two entries
C8_Witness == lastOp = "logout" /\ Len(users) = 2 /\ Len(scoreHistory) = 2

\* the four fields of a response are consistent with each other
C9_Consistent ==
    /\ (creditScore = None) <=> (riskBand = None)
    /\ creditScore # None =>
          \E r \in Results :
             /\ creditScore = Some(r.alternative_credit_score)
             /\ riskBand = Some(r.risk_band)
             /\ topFactors = r.top_factors
             /\ scoreHistory # <<>>
             /\ Head(scoreHistory).score = r.alternative_credit_score
             /\ Head(scoreHistory).riskBand = r.risk_band

\* a step that takes any of the four fields from a response takes all four
C9_Together ==
    ( \/ scoreHistory' # scoreHistory
      \/ topFactors' # topFactors
      \/ (creditScore' # creditScore /\ creditScore' # None)
      \/ (riskBand' # riskBand /\ riskBand' # None) )
    => \E r \in Results :
          /\ creditScore' = Some(r.alternative_credit_score)
          /\ riskBand' = Some(r.risk_band)
          /\ topFactors' = r.top_factors
          /\ scoreHistory' # <<>>
          /\ Head(scoreHistory') = [date |-> today, score |-> r.alternative_credit_score, riskBand |-> r.risk_band]
          /\ currentPage' = "dashboard"

\* C9: a successful scoring response sets creditScore, riskBand, topFactors,
\* the head of scoreHistory and currentPage = dashboard in one step; no step
\* takes some of them from a response without the others, and no state
\* shows a score, band, factors and newest history entry of different responses.
C9_ResponseAppliedAtomically ==
    /\ []C9_Consistent
    /\ [][C9_Together]_vars
    /\ [][\A i \in 1..MaxInFlight, r \in Results :
             ScoreResolved(i, r)
             => /\ creditScore' = Some(r.alternative_credit_score)
                /\ riskBand' = Some(r.risk_band)
                /\ topFactors' = r.top_factors
                /\ Head(scoreHistory') = [date |-> today, score |-> r.alternative_credit_score, riskBand |-> r.risk_band]
                /\ currentPage' = "dashboard"]_vars

\* a second response has just been applied
C9_Witness == lastOp = "resolved" /\ creditScore # None /\ Len(scoreHistory) = 2 /\ currentPage = "dashboard"

\* C10: a rejected scoring call leaves creditScore, riskBand, topFactors,
\* scoreHistory and currentPage (and the rest of the session) as they were;
\* on the page that issued it, it sets the error message and clears isLoading.
C10_FailureLeavesSession ==
    [][\A i \in 1..MaxInFlight, m \in ErrorMessages :
          ScoreRejected(i, m)
          => /\ UNCHANGED <<creditScore, riskBand, topFactors, scoreHistory, currentPage>>
             /\ UNCHANGED <<isLoggedIn, userName, users, isSignUp, authError>>
             /\ requests[i].live => (formError' = Some(m) /\ isLoading' = FALSE)]_vars

\* a call has just failed on the form of a session that already has a score
C10_Witness == lastOp = "rejected" /\ formError # None /\ currentPage = "form" /\ scoreHistory # <<>>

\* C11: scoreHistory is append-only with one entry per successful scoring
\* call: every successful response adds exactly one entry in front of the
\* entries that were there, which stay as they were, and nothing else changes
\* scoreHistory (so its length is the number of successful calls so far).
C11_Original ==
    /\ [][\A i \in 1..MaxInFlight, r \in Results :
             ScoreResolved(i, r)
             => /\ Len(scoreHistory') = Len(scoreHistory) + 1
                /\ Tail(scoreHistory') = scoreHistory]_vars
    /\ [][scoreHistory' # scoreHistory => \E i \in 1..MaxInFlight, r \in Results : ScoreResolved(i, r)]_vars

\* C12: a submission whose response arrives with no other response applied
\* since it was made (two submissions one after the other) puts its entry at
\* index 0, in front of the previous history in its previous order; after two
\* such submissions the later entry is at index 0, the earlier one at index 1.
C12_NewestFirst ==
    [][\A i \in 1..MaxInFlight, r \in Results :
          (ScoreResolved(i, r) /\ requests[i].scoreHistory = scoreHistory)
          => /\ Len(scoreHistory') = Len(scoreHistory) + 1
             /\ scoreHistory'[1] = [date |-> today, score |-> r.alternative_credit_score, riskBand |-> r.risk_band]
             /\ \A k \in DOMAIN scoreHistory : scoreHistory'[k + 1] = scoreHistory[k]]_vars

\* two submissions, each made after the previous response, have both succeeded
\* with different results
C12_Witness ==
    /\ lastOp = "resolved"
    /\ requests = <<>>
    /\ Len(scoreHistory) = 2
    /\ scoreHistory[1].score # scoreHistory[2].score
    /\ creditScore = Some(scoreHistory[1].score)

\* C13: at most one scoring request is in flight at any time.
C13_Original == Len(requests) <= 1

\* the request a submit step has just issued
Issued == requests'[Len(requests')].payload

OptionalFields ==
    { "gpa", "attendance_rate", "platform_rating", "avg_weekly_hours", "business_years",
      "avg_daily_revenue", "land_size_acres", "subsidy_amount", "seasonality_index" }

GroupOf(profile_type) ==
    CASE profile_type = "student" -> { "gpa", "attendance_rate" }
      [] profile_type = "gig" -> { "platform_rating", "avg_weekly_hours" }
      [] profile_type = "shopkeeper" -> { "business_years", "avg_daily_revenue" }
      [] profile_type = "rural" -> { "land_size_acres", "subsidy_amount", "seasonality_index" }
      [] profile_type = "salaried" -> {}

ServiceProfileOf(profileType) ==
    CASE profileType = "student" -> "student"
      [] profileType = "gig-worker" -> "gig"
      [] profileType = "shopkeeper" -> "shopkeeper"
      [] profileType = "rural" -> "rural"
      [] profileType = "" -> "salaried"
      [] profileType = "salaried" -> "salaried"
      [] profileType = "freelancer" -> "salaried"

\* C14: the request built at a submit carries a value for exactly the
\* optional fields of the group of its profile_type (student: gpa and
\* attendance_rate; gig: platform_rating and avg_weekly_hours; shopkeeper:
\* business_years and avg_daily_revenue; rural: land_size_acres,
\* subsidy_amount and seasonality_index; salaried: none); every other
\* optional field is absent, whatever the form holds for it.
C14_ExactlyTheGroupOfTheProfile ==
    [][handleSubmitForm
       => /\ Issued.profile_type = ServiceProfileOf(formData.profileType)
          /\ { k \in OptionalFields : Issued[k] # None } = GroupOf(Issued.profile_type)]_vars

C14_Witness ==
    /\ lastOp = "submit"
    /\ Len(requests) = 1
    /\ requests[1].payload.profile_type = "gig"
    /\ formData.gpa = "0.8"
    /\ formData.landSize = "0.8"
    /\ requests[1].payload.gpa = None
    /\ requests[1].payload.land_size_acres = None
    /\ requests[1].payload.platform_rating = Some(Number[4, 5])
    /\ requests[1].payload.avg_weekly_hours = Some(Number[4, 5])

Within(x, lo, hi) == isFinite(x) /\ LessEq[lo, x] /\ LessEq[x, hi]

NotNegative(x) == x # NaN /\ LessEq[Zero, x]

\* an optional field, when present, satisfies P
Present(field, P(_)) == field # None => P(field[1])

InUnit(x) == Within(x, Zero, Number[1, 1])

InGpa(x) == Within(x, Zero, Number[4, 1])

InRating(x) == Within(x, Zero, Number[5, 1])

\* C15: every numeric field of every request sent lies in its domain: gpa in
\* [0,4], attendance_rate and seasonality_index in [0,1], platform_rating in
\* [0,5], income_variance in [0,99], and the amounts and counts are >= 0.
C15_FieldsInDomain ==
    \A i \in DOMAIN requests :
        LET p == requests[i].payload
        IN /\ Present(p.gpa, InGpa)
           /\ Present(p.attendance_rate, InUnit)
           /\ Present(p.platform_rating, InRating)
           /\ Present(p.seasonality_index, InUnit)
           /\ Within(p.income_variance, Zero, Number[99, 1])
           /\ NotNegative(p.monthly_income)
           /\ NotNegative(p.savings_balance)
           /\ NotNegative(p.months_active)
           /\ Present(p.avg_weekly_hours, NotNegative)
           /\ Present(p.business_years, NotNegative)
           /\ Present(p.avg_daily_revenue, NotNegative)
           /\ Present(p.land_size_acres, NotNegative)
           /\ Present(p.subsidy_amount, NotNegative)

C15_Witness ==
    /\ lastOp = "submit"
    /\ Len(requests) = 1
    /\ formData.profileType = "student"
    /\ formData.gpa = " 92e0x"
    /\ formData.monthlyIncome = ""
    /\ requests[1].payload.gpa = Some(Number[4, 1])
    /\ requests[1].payload.monthly_income = Zero
    /\ requests[1].payload.attendance_rate = Some(Zero)

\* the number the incomeStability field of the form reads as
StabilityTyped == parseFloat(formData.incomeStability)

\* C16 as stated: a submit with incomeStability non-numeric or <= 0 sends
\* income_variance = 99, and with incomeStability s in (0,1] it sends
\* max(0, 1/s - 1).
C16_Original ==
    [][handleSubmitForm
       => /\ (~isFinite(StabilityTyped) \/ LessEq[StabilityTyped, Zero])
                => Issued.income_variance = Number[99, 1]
          /\ (isFinite(StabilityTyped) /\ ~LessEq[StabilityTyped, Zero] /\ LessEq[StabilityTyped, Number[1, 1]])
                => Issued.income_variance
                      = MathMax[Zero, Minus[Over[Number[1, 1], StabilityTyped], Number[1, 1]]]]_vars

\* C16: a submit with incomeStability non-numeric sends income_variance = 1
\* (stability 0.5); with a number below 0.01 it sends 99 (stability 0.01);
\* with a number s in [0.01, 1] it sends 1/s - 1; with a number above 1 it
\* sends 0.
C16_StabilityFallbackAndClamp ==
    [][handleSubmitForm
       => /\ ~isFinite(StabilityTyped) => Issued.income_variance = Number[1, 1]
          /\ (isFinite(StabilityTyped) /\ ~LessEq[Number[1, 100], StabilityTyped])
                => Issued.income_variance = Number[99, 1]
          /\ (isFinite(StabilityTyped) /\ LessEq[Number[1, 100], StabilityTyped] /\ LessEq[StabilityTyped, Number[1, 1]])
                => Issued.income_variance = Minus[Over[Number[1, 1], StabilityTyped], Number[1, 1]]
          /\ (isFinite(StabilityTyped) /\ ~LessEq[StabilityTyped, Number[1, 1]])
                => Issued.income_variance = Zero]_vars

C16_Witness ==
    /\ lastOp = "submit"
    /\ Len(requests) = 1
    /\ formData.incomeStability = "abc"
    /\ formData.monthlyIncome = "0.8"
    /\ requests[1].payload.income_variance = Number[1, 1]

\* the form field each numeric field of the request is read from
SharedSources ==
    { <<"monthly_income", "monthlyIncome">>, <<"savings_balance", "savingsBalance">>,
      <<"months_active", "monthsActive">> }

OptionalSources ==
    { <<"gpa", "gpa">>, <<"attendance_rate", "attendanceRate">>,
      <<"platform_rating", "platformRating">>, <<"avg_weekly_hours", "avgWeeklyHours">>,
      <<"business_years", "businessYears">>, <<"avg_daily_revenue", "avgDailyRevenue">>,
      <<"land_size_acres", "landSize">>, <<"subsidy_amount", "subsidyAmount">>,
      <<"seasonality_index", "seasonalityIndex">> }

Malformed(raw) == ~isFinite(parseFloat(raw))

\* what a submit step does to the calls in flight: one more, whose numbers
\* are finite and whose malformed inputs are at their fallback
IssuesOneWellFormedRequest ==
    /\ Len(requests') = Len(requests) + 1
    /\ SubSeq(requests', 1, Len(requests)) = requests
    /\ Issued.profile_type \in { "salaried", "student", "gig", "shopkeeper", "rural" }
    /\ isFinite(Issued.income_variance)
    /\ Malformed(formData.incomeStability) => Issued.income_variance = Number[1, 1]
    /\ \A s \in SharedSources :
          /\ isFinite(Issued[s[1]])
          /\ Malformed(formData[s[2]]) => Issued[s[1]] = Zero
    /\ \A s \in OptionalSources :
          Issued[s[1]] # None
          => /\ isFinite(Issued[s[1]][1])
             /\ Malformed(formData[s[2]]) => Issued[s[1]] = Some(Zero)

\* C17: whatever the form holds (empty, non-numeric or non-finite fields, an
\* unset profile), the submit of a form that is not loading can be taken; a
\* submit issues exactly one request, in which every number is finite and a
\* field read from a malformed input holds its fallback (0; for
\* incomeStability 0.5, which gives income_variance 1); no other step issues
\* a request, so a failed call is not tried again.
C17_SubmitNeverAborts ==
    [][/\ (Rendered = "form" /\ ~isLoading) => ENABLED handleSubmitForm
       /\ handleSubmitForm => IssuesOneWellFormedRequest
       /\ Len(requests') > Len(requests) => handleSubmitForm]_vars

C17_Witness ==
    /\ lastOp = "submit"
    /\ Len(requests) = 1
    /\ formData.profileType = ""
    /\ formData.monthlyIncome = "Infinity"
    /\ formData.savingsBalance = ""
    /\ requests[1].payload.profile_type = "salaried"
    /\ requests[1].payload.monthly_income = Zero
    /\ requests[1].payload.savings_balance = Zero

\* the text of an email before its first "@", the whole email when it has none
LocalPart(email) ==
    LET ats == { k \in DOMAIN email : email[k] = "@" }
    IN IF ats = {} THEN email
       ELSE SubSeq(email, 1, (CHOOSE k \in ats : \A j \in ats : k <= j) - 1)

LowerCased(s) == [k \in DOMAIN s |-> ToLowerCase(s[k])]

FirstUpper(s) == [k \in DOMAIN s |-> IF k = 1 THEN ToUpperCase(s[k]) ELSE s[k]]

\* a sign-up of (email, "p") that creates a user gives it the display name
\* and shows that name in the session
SignUpNames(email, name) ==
    (handleSubmitAuth(email, "p") /\ isSignUp /\ Len(users') = Len(users) + 1)
    => /\ users'[Len(users')].userName = name
       /\ userName' = name

\* C18 as stated: the display name created at sign-up is the local part of
\* the email lower-cased and then with its first letter upper-cased, "User"
\* when the local part is empty.
C18_Original ==
    [][\A email \in NameEmails :
          SignUpNames(email, IF LocalPart(email) = <<>> THEN <<"U", "s", "e", "r">>
                             ELSE FirstUpper(LowerCased(LocalPart(email))))]_vars

\* C18: the display name created at sign-up is the local part of the email
\* with its first letter upper-cased and every other character as typed,
\* "User" when the local part is empty.
C18_FirstLetterUpperRestAsTyped ==
    [][\A email \in NameEmails :
          SignUpNames(email, IF LocalPart(email) = <<>> THEN <<"U", "s", "e", "r">>
                             ELSE FirstUpper(LocalPart(email)))]_vars

C18_Witness ==
    /\ lastOp = "auth"
    /\ isLoggedIn
    /\ Len(users) = 2
    /\ users[1].email = <<"@", "x">>
    /\ users[1].userName = <<"U", "s", "e", "r">>
    /\ users[2].email = <<"j", "O", "@", "x">>
    /\ users[2].userName = <<"J", "O">>
    /\ userName = <<"J", "O">>

\* C19: an auth submit, in either mode, with an empty email or an empty
\* password sets the missing-field message, whether or not the email is
\* registered, and leaves users, isLoggedIn, userName and currentPage as
\* they were.
C19_EmptyFieldFailsBeforeLookup ==
    [][\A email \in Emails, password \in Passwords :
          (handleSubmitAuth(email, password) /\ (email = EmptyString \/ password = ""))
          => /\ authError' = MissingFieldError
             /\ UNCHANGED <<users, isLoggedIn, userName, currentPage>>]_vars

C19_Witness ==
    /\ lastOp = "auth"
    /\ authError = MissingFieldError
    /\ isSignUp
    /\ Len(users) = 2
    /\ ~isLoggedIn
    /\ currentPage = "auth"

\* C20: a sign-in with both fields filled that matches no registered
\* (email, password) pair has one outcome, the same whether or not the email
\* is registered: the invalid-credentials message, and the session and the
\* sign-in mode as they were.
C20_FailedSignInDoesNotDependOnEmail ==
    [][\A email \in Emails, password \in Passwords :
          ( /\ handleSubmitAuth(email, password)
            /\ ~isSignUp
            /\ email # EmptyString
            /\ password # ""
            /\ ~\E i \in DOMAIN users : users[i].email = email /\ users[i].password = password )
          => /\ authError' = InvalidCredentialsError
             /\ UNCHANGED <<users, isLoggedIn, userName, currentPage, creditScore, riskBand,
                            topFactors, scoreHistory, formData, isSignUp>>]_vars

C20_Witness ==
    /\ lastOp = "auth"
    /\ authError = InvalidCredentialsError
    /\ ~isSignUp
    /\ ~isLoggedIn
    /\ Len(users) = 2
    /\ users[1].password # users[2].password

\* C21: a logout resets the session to its state at application start except
\* for users and scoreHistory: after it isLoggedIn, currentPage, creditScore
\* and riskBand, and also userName, topFactors and formData, hold the values
\* they had at application start.
C21_Original ==
    [][Logout => /\ isLoggedIn' = FALSE
                 /\ currentPage' = "landing"
                 /\ creditScore' = None
                 /\ riskBand' = None
                 /\ userName' = EmptyString
                 /\ topFactors' = <<>>
                 /\ formData' = FormDataOf("", "", "fullName", "")]_vars

\* C22: on the form page isLoading is true from a submit until its call
\* completes and false after the completion, on the success and on the
\* failure path; a failure sets the error message; each submit clears the
\* previous message.
C22_Original ==
    /\ []((Rendered = "form" /\ requests # <<>>) => isLoading)
    /\ [][handleSubmitForm => (isLoading' /\ formError' = None)]_vars
    /\ [][\A i \in 1..MaxInFlight, r \in Results : ScoreResolved(i, r) => ~isLoading']_vars
    /\ [][\A i \in 1..MaxInFlight, m \in ErrorMessages :
             (ScoreRejected(i, m) /\ Rendered = "form")
             => (Len(requests') = 0 => ~isLoading') /\ formError' = Some(m)]_vars

ServiceProfiles == { "salaried", "student", "gig", "shopkeeper", "rural" }

\* C23: the profile_type of every request is one of salaried, student, gig,
\* shopkeeper and rural; a submit maps gig-worker to gig, keeps student,
\* shopkeeper and rural, and maps every other profile identifier, the unset
\* one included, to salaried.
C23_ProfileTypeInEnum ==
    /\ [](\A i \in DOMAIN requests : requests[i].payload.profile_type \in ServiceProfiles)
    /\ [][handleSubmitForm
          => Issued.profile_type
                = IF formData.profileType = "gig-worker" THEN "gig"
                  ELSE IF formData.profileType \in { "student", "shopkeeper", "rural" }
                       THEN formData.profileType
                       ELSE "salaried"]_vars

\* a form whose profile identifier the map does not know has been submitted
C23_Witness ==
    /\ lastOp = "submit"
    /\ Len(requests) = 1
    /\ formData.profileType = "freelancer"
    /\ requests[1].payload.profile_type = "salaried"

GpaTyped == parseFloat(formData.gpa)

AttendanceTyped == parseFloat(formData.attendanceRate)

\* C24: a submit with the student profile sends gpa = gpa_raw * 4 / 10 for a
\* gpa_raw in [0,10] and attendance_rate = attendance_raw / 100 for an
\* attendance_raw in [0,100]; the form {student, monthlyIncome 25000,
\* incomeStability 0.8, gpa 8.5, attendanceRate 92} sends gpa 3.4,
\* attendance_rate 0.92, income_variance 0.25, monthly_income 25000 and
\* profile_type student.
C24_StudentConversions ==
    [][(handleSubmitForm /\ formData.profileType = "student")
       => /\ Within(GpaTyped, Zero, Number[10, 1])
                => Issued.gpa = Some(Number[GpaTyped.n * 4, GpaTyped.d * 10])
          /\ Within(AttendanceTyped, Zero, Number[100, 1])
                => Issued.attendance_rate = Some(Number[AttendanceTyped.n, AttendanceTyped.d * 100])
          /\ formData = StudentForm
                => /\ Issued.gpa = Some(Number[34, 10])
                   /\ Issued.attendance_rate = Some(Number[92, 100])
                   /\ Issued.income_variance = Number[25, 100]
                   /\ Issued.monthly_income = Number[25000, 1]
                   /\ Issued.profile_type = "student"]_vars

\* the form of the scenario has been submitted
C24_Witness ==
    /\ lastOp = "submit"
    /\ Len(requests) = 1
    /\ formData = StudentForm
    /\ requests[1].payload.gpa = Some(Number[17, 5])
    /\ requests[1].payload.attendance_rate = Some(Number[23, 25])
    /\ requests[1].payload.income_variance = Number[1, 4]

AggregateFields ==
    { "total_credits", "total_debits", "total_transactions", "avg_credit_amount",
      "avg_debit_amount", "recurring_ratio" }

\* C25: in every request sent, for every profile and every content of the
\* form, the six aggregate fields total_credits, total_debits,
\* total_transactions, avg_credit_amount, avg_debit_amount and recurring_ratio
\* are present and hold the number 0.
C25_AggregatesAreZero ==
    \A i \in DOMAIN requests :
        \A k \in AggregateFields :
            /\ k \in DOMAIN requests[i].payload
            /\ requests[i].payload[k] = [n |-> 0, d |-> 1]

\* a shopkeeper's form with every field filled in has been submitted
C25_Witness ==
    /\ lastOp = "submit"
    /\ Len(requests) = 1
    /\ formData.profileType = "shopkeeper"
    /\ \A f \in TypedFields : formData[f] = "0.8"
    /\ requests[1].payload.monthly_income = Number[4, 5]
    /\ requests[1].payload.total_credits = [n |-> 0, d |-> 1]
    /\ requests[1].payload.recurring_ratio = [n |-> 0, d |-> 1]

\* C26: a submit reads formData and leaves it as it is, and the request it
\* issues holds what the form held at that moment: typing afterwards does not
\* change a request in flight; neither a successful nor a failed response
\* changes formData; an update of one field sets that field to the value
\* typed and leaves every other field of formData as it was.
C26_SubmitReadsUpdateWritesOneField ==
    /\ [][handleSubmitForm => (formData' = formData /\ Issued = payload(formData))]_vars
    /\ [][lastOp' = "update" => requests' = requests]_vars
    /\ [][(ScoreSuccess \/ ScoreFailure) => formData' = formData]_vars
    /\ [][\A field \in TypedFields, value \in RawValues :
             update(field, value)
             => /\ DOMAIN formData' = DOMAIN formData
                /\ formData'[field] = value
                /\ \A g \in DOMAIN formData \ { field } : formData'[g] = formData[g]]_vars

\* after the submit of a filled form the income was typed anew: the request
\* in flight still holds the income of the submit, the other fields are as typed before
C26_Witness ==
    /\ lastOp = "update"
    /\ Len(requests) = 1
    /\ formData.monthlyIncome = "8.5"
    /\ formData.profileType = "rural"
    /\ \A g \in TypedFields \ { "monthlyIncome" } : formData[g] = "0.8"
    /\ requests[1].payload.monthly_income = Number[4, 5]

\* C27: in every reachable state with isLoggedIn false, creditScore and
\* riskBand are null, also when a scoring call issued before the logout
\* succeeds after it.
C27_Original == ~isLoggedIn => (creditScore = None /\ riskBand = None)

\* C28: in every reachable state with isLoggedIn true, users is not empty and
\* userName is the userName of one of its entries; isLoggedIn becomes true
\* only in an auth submit whose (email, password) pair is registered after it
\* (a successful sign-up or sign-in); no step removes or alters an entry of
\* users.
C28_LoggedInUserIsRegistered ==
    /\ [](isLoggedIn => (users # <<>> /\ \E i \in DOMAIN users : users[i].userName = userName))
    /\ [][(~isLoggedIn /\ isLoggedIn')
          => \E email \in Emails, password \in Passwords :
                /\ handleSubmitAuth(email, password)
                /\ email # EmptyString /\ password # ""
                /\ \E i \in DOMAIN users' : users'[i].email = email /\ users'[i].password = password
                /\ userName' \in { users'[i].userName : i \in { j \in DOMAIN users' : users'[j].email = email } }]_vars
    /\ [][Len(users') >= Len(users) /\ SubSeq(users', 1, Len(users)) = users]_vars

\* the first of two registered users has signed in again, after a logout
C28_Witness ==
    /\ lastOp = "auth"
    /\ isLoggedIn
    /\ currentPage = "dashboard"
    /\ Len(users) = 2
    /\ userName = users[1].userName
    /\ userName # users[2].userName

\* C29: what a user who signs in after another user has logged out observes
\* of creditScore, riskBand, topFactors and scoreHistory does not depend on
\* the submissions of that other user. The submissions are optional, and in
\* the run without them these four are as at the start; so a user who has
\* just signed up in a logged-out session, and has submitted nothing yet,
\* observes no score, no band, no factors and an empty history.
C29_Original ==
    [][(~isLoggedIn /\ isLoggedIn' /\ Len(users') = Len(users) + 1)
       => /\ creditScore' = None
          /\ riskBand' = None
          /\ topFactors' = <<>>
          /\ scoreHistory' = <<>>]_vars

====
